---- MODULE Spec2Model ----
(***************************************************************************)
(* Model of IPython/kernel/adapter.py: the message adapters between msg    *)
(* spec versions 4 and 5, the adapt() entry point and its two helpers      *)
(* code_to_line and _version_str_to_list.                                  *)
(*                                                                         *)
(* Python values are tagged pairs <<tag, value>>.  A Python str is the     *)
(* sequence of its characters, so that len(), slicing, split() and int()   *)
(* are computed and not assumed.  A Python dict is a TLA+ function; a list  *)
(* of ints (a version_info) holds them bare.  An exception is the name of  *)
(* its class; "none" means the call returned.                              *)
(***************************************************************************)
EXTENDS Integers, Sequences, FiniteSets, TLC

VARIABLES
    msg,        \* the message dict handed to adapt(); handlers mutate it in place
    to,         \* to_version of the last adapt() call
    exc,        \* exception raised by the last call, "none" if it returned
    trace,      \* the methods the last call invoked, in order
    ran,        \* the adapter the last call selected: "V5toV4", "V4toV5", "none"
    prev,       \* the message as it was before the last call
    calls,      \* number of adapt() calls made on msg
    hist,       \* per call made: its to_version, the adapter selected, the exception
    twin,       \* a second message, adapted alongside msg (default-version rule)
    twinres,    \* result of adapt() on twin
    code,       \* code_to_line: argument code
    cursor_pos, \* code_to_line: argument cursor_pos
    lineres,    \* code_to_line: what the call produced
    version,    \* _version_str_to_list: argument version
    segs,       \* _version_str_to_list: the list returned
    joined,     \* ".".join(map(str, segs))
    pc          \* position of the driver of the specification at hand

vars == <<msg, to, exc, trace, ran, prev, calls, hist, twin, twinres,
          code, cursor_pos, lineres, version, segs, joined, pc>>

----------------------------------------------------------------------------
(* Bounds of the model *)

MaxCodeLen == 4
MaxCursor == 6
MaxVersionLen == 5
MaxCalls == 2

----------------------------------------------------------------------------
(* Python values *)

PyStr(s) == <<"str", s>>
PyInt(n) == <<"int", n>>
PyBool(b) == <<"bool", b>>
PyList(l) == <<"list", l>>
PyDict(d) == <<"dict", d>>
PyNone == <<"none", 0>>
\* an object of some other class
PyObject == <<"object", 0>>

Kind(v) == v[1]
Val(v) == v[2]

EmptyDict == [k \in {} |-> PyNone]

\* d[k] = v
Put(d, k, v) == (k :> v) @@ d
\* d.pop(k, None), the remaining dict
Drop(d, k) == [x \in DOMAIN d \ {k} |-> d[x]]
Has(d, k) == k \in DOMAIN d
\* d.setdefault(k, v), the resulting dict
SetDefault(d, k, v) == IF Has(d, k) THEN d ELSE Put(d, k, v)

\* s[:n] of a Python sequence
SliceTo(s, n) ==
    IF n >= 0
    THEN SubSeq(s, 1, IF n < Len(s) THEN n ELSE Len(s))
    ELSE SubSeq(s, 1, IF Len(s) + n > 0 THEN Len(s) + n ELSE 0)

\* s.startswith(p)
StartsWith(s, p) == Len(s) >= Len(p) /\ SubSeq(s, 1, Len(p)) = p

\* all sequences over S of length at most n
RECURSIVE SeqsUpTo(_, _)
SeqsUpTo(S, n) ==
    IF n = 0 THEN {<<>>}
    ELSE LET shorter == SeqsUpTo(S, n - 1)
         IN  shorter \cup {Append(s, c) : s \in {t \in shorter : Len(t) = n - 1}, c \in S}

----------------------------------------------------------------------------
(* code_to_line *)

LF == "\n"
CR == "\r"

\* index of the first line boundary character of s, 0 if there is none
RECURSIVE FirstBreak(_, _)
FirstBreak(s, i) ==
    IF i > Len(s) THEN 0
    ELSE IF s[i] \in {LF, CR} THEN i
    ELSE FirstBreak(s, i + 1)

\* code.splitlines(True): the lines of s, each with its terminator
RECURSIVE SplitLines(_)
SplitLines(s) ==
    IF s = <<>> THEN <<>>
    ELSE LET i == FirstBreak(s, 1)
             e == IF i = 0 THEN Len(s)
                  ELSE IF s[i] = CR /\ i < Len(s) /\ s[i + 1] = LF THEN i + 1
                  ELSE i
         IN  <<SubSeq(s, 1, e)>> \o SplitLines(SubSeq(s, e + 1, Len(s)))

\* the for loop of code_to_line from line i on, with cursor_pos = cp
RECURSIVE LineLoop(_, _, _)
LineLoop(lines, i, cp) ==
    IF i > Len(lines)
    THEN [line |-> lines[Len(lines)], cursor_pos |-> cp, exc |-> "none"]
    ELSE IF cp > Len(lines[i])
    THEN LineLoop(lines, i + 1, cp - Len(lines[i]))
    ELSE [line |-> lines[i], cursor_pos |-> cp, exc |-> "none"]

code_to_line(c, cp) ==
    LET lines == SplitLines(c)
    IN  IF lines = <<>>
        THEN \* the loop body never runs: `line` is unbound at the return
             [line |-> <<>>, cursor_pos |-> cp, exc |-> "UnboundLocalError"]
        ELSE LineLoop(lines, 1, cp)

----------------------------------------------------------------------------
(* _version_str_to_list *)

Digits == <<"0", "1", "2", "3", "4", "5", "6", "7", "8", "9">>
DigitChars == {Digits[i] : i \in 1..10}

DigitVal(c) == (CHOOSE i \in 1..10 : Digits[i] = c) - 1

\* value of a nonempty sequence of digits
RECURSIVE DigitsVal(_)
DigitsVal(s) ==
    IF s = <<>> THEN 0
    ELSE 10 * DigitsVal(SubSeq(s, 1, Len(s) - 1)) + DigitVal(s[Len(s)])

AllDigits(s) == s # <<>> /\ \A i \in 1..Len(s) : s[i] \in DigitChars

\* s.strip() for the blank
RECURSIVE Strip(_)
Strip(s) ==
    IF s # <<>> /\ s[1] = " " THEN Strip(Tail(s))
    ELSE IF s # <<>> /\ s[Len(s)] = " " THEN Strip(SubSeq(s, 1, Len(s) - 1))
    ELSE s

\* int(part): an optional sign and decimal digits, blanks around them ignored
ParseInt(part) ==
    LET t == Strip(part)
        signed == t # <<>> /\ t[1] \in {"+", "-"}
        body == IF signed THEN Tail(t) ELSE t
    IN  IF AllDigits(body)
        THEN [ok |-> TRUE,
              val |-> IF signed /\ t[1] = "-" THEN 0 - DigitsVal(body) ELSE DigitsVal(body)]
        ELSE [ok |-> FALSE, val |-> 0]

\* index of the first occurrence of sep in s from i on, 0 if none
RECURSIVE FirstAt(_, _, _)
FirstAt(s, sep, i) ==
    IF i > Len(s) THEN 0
    ELSE IF s[i] = sep THEN i
    ELSE FirstAt(s, sep, i + 1)

\* s.split(sep) for a one-character separator
RECURSIVE Split(_, _)
Split(s, sep) ==
    LET i == FirstAt(s, sep, 1)
    IN  IF i = 0 THEN <<s>>
        ELSE <<SubSeq(s, 1, i - 1)>> \o Split(SubSeq(s, i + 1, Len(s)), sep)

\* the loop of _version_str_to_list over the parts
RECURSIVE IntParts(_)
IntParts(parts) ==
    IF parts = <<>> THEN <<>>
    ELSE LET p == ParseInt(parts[1])
         IN  (IF p.ok THEN <<p.val>> ELSE <<>>) \o IntParts(Tail(parts))

\* mutant: a part that is no int is kept as 0 instead of being skipped
RECURSIVE IntPartsKeep(_)
IntPartsKeep(parts) ==
    IF parts = <<>> THEN <<>>
    ELSE <<ParseInt(parts[1]).val>> \o IntPartsKeep(Tail(parts))

_version_str_to_list_keep(v) == IntPartsKeep(Split(v, "."))

_version_str_to_list(v) == IntParts(Split(v, "."))

\* str(n) of a natural number
RECURSIVE NatStr(_)
NatStr(n) ==
    IF n < 10 THEN <<Digits[n + 1]>>
    ELSE NatStr(n \div 10) \o <<Digits[(n % 10) + 1]>>

\* str(n) of an int
IntStr(n) == IF n < 0 THEN <<"-">> \o NatStr(0 - n) ELSE NatStr(n)

\* sep.join(parts)
RECURSIVE Join(_, _)
Join(parts, sep) ==
    IF parts = <<>> THEN <<>>
    ELSE IF Len(parts) = 1 THEN parts[1]
    ELSE parts[1] \o <<sep>> \o Join(Tail(parts), sep)

\* ".".join(map(str, l))
JoinVersion(l) == Join([i \in 1..Len(l) |-> IntStr(l[i])], ".")

----------------------------------------------------------------------------
(* String literals of the source *)

s_error == <<"e", "r", "r", "o", "r">>
s_aborted == <<"a", "b", "o", "r", "t", "e", "d">>
s_ok == <<"o", "k">>
s_ipython == <<"i", "p", "y", "t", "h", "o", "n">>
s_python == <<"p", "y", "t", "h", "o", "n">>
s_display == <<"d", "i", "s", "p", "l", "a", "y">>
s_unknown == <<"u", "n", "k", "n", "o", "w", "n">>
s_empty_docstring == <<"<", "e", "m", "p", "t", "y", " ", "d", "o", "c", "s", "t", "r", "i", "n", "g", ">">>
s_null == <<"n", "u", "l", "l">>
s_true == <<"t", "r", "u", "e">>
s_false == <<"f", "a", "l", "s", "e">>
v41 == <<"4", ".", "1">>
v50 == <<"5", ".", "0">>

----------------------------------------------------------------------------
(* Results of calls: the message as the call left it, and the exception *)

Return(m) == [msg |-> m, exc |-> "none"]
Raise(m, e) == [msg |-> m, exc |-> e]

\* msg['content'] = c
WithContent(m, c) == [m EXCEPT !["content"] = c]

----------------------------------------------------------------------------
(* json.dumps and json.loads on the values display_data carries *)

\* the body of a JSON string: quote and backslash escaped (the texts of the
\* model hold no control characters and no non-ASCII ones)
RECURSIVE JsonEscape(_)
JsonEscape(s) ==
    IF s = <<>> THEN <<>>
    ELSE (IF s[1] \in {"\"", "\\"} THEN <<"\\", s[1]>> ELSE <<s[1]>>) \o JsonEscape(Tail(s))

\* json.dumps(v) of a scalar; PyObject is not JSON serializable
json_dumps(v) ==
    CASE Kind(v) = "int" -> [ok |-> TRUE, val |-> PyStr(IntStr(Val(v)))]
      [] Kind(v) = "str" -> [ok |-> TRUE, val |-> PyStr(<<"\"">> \o JsonEscape(Val(v)) \o <<"\"">>)]
      [] Kind(v) = "none" -> [ok |-> TRUE, val |-> PyStr(s_null)]
      [] Kind(v) = "bool" -> [ok |-> TRUE, val |-> PyStr(IF Val(v) THEN s_true ELSE s_false)]
      [] Kind(v) = "object" -> [ok |-> FALSE, val |-> v]

\* a JSON number without fraction: -?(0|[1-9][0-9]*)
JsonInt(s) ==
    LET body == IF s # <<>> /\ s[1] = "-" THEN Tail(s) ELSE s
    IN  AllDigits(body) /\ (Len(body) = 1 \/ body[1] # "0")

\* json.loads(v) of a text that holds a scalar or is no JSON at all; a value
\* that is no str is a TypeError, which display_data swallows like the rest
json_loads(v) ==
    IF Kind(v) # "str" THEN [ok |-> FALSE, val |-> v]
    ELSE LET s == Val(v)
         IN  IF JsonInt(s) THEN [ok |-> TRUE, val |-> PyInt(ParseInt(s).val)]
             ELSE IF s = s_null THEN [ok |-> TRUE, val |-> PyNone]
             ELSE IF s = s_true THEN [ok |-> TRUE, val |-> PyBool(TRUE)]
             ELSE IF s = s_false THEN [ok |-> TRUE, val |-> PyBool(FALSE)]
             ELSE IF Len(s) >= 2 /\ s[1] = "\"" /\ s[Len(s)] = "\""
                     /\ \A i \in 2..(Len(s) - 1) : s[i] \notin {"\"", "\\"}
                  THEN [ok |-> TRUE, val |-> PyStr(SubSeq(s, 2, Len(s) - 1))]
             ELSE [ok |-> FALSE, val |-> v]

----------------------------------------------------------------------------
(* class Adapter *)

V5toV4_msg_type_map ==
    [t \in {"execute_result", "execute_input", "error", "inspect_request", "inspect_reply"} |->
        CASE t = "execute_result" -> "pyout"
          [] t = "execute_input" -> "pyin"
          [] t = "error" -> "pyerr"
          [] t = "inspect_request" -> "object_info_request"
          [] t = "inspect_reply" -> "object_info_reply"]

\* {v:k for k,v in V5toV4.msg_type_map.items()}
V4toV5_msg_type_map ==
    [t \in {V5toV4_msg_type_map[k] : k \in DOMAIN V5toV4_msg_type_map} |->
        CHOOSE k \in DOMAIN V5toV4_msg_type_map : V5toV4_msg_type_map[k] = t]

msg_type_map(self) ==
    IF self = "V5toV4" THEN V5toV4_msg_type_map ELSE V4toV5_msg_type_map

\* mutant: update_header left as the identity of the base class
update_header_base(self, m) == m

\* V5toV4.update_header pops 'version'; V4toV5.update_header stamps self.version
update_header(self, m) ==
    IF self = "V5toV4"
    THEN [m EXCEPT !["header"] = Drop(@, "version")]
    ELSE [m EXCEPT !["header"] = Put(@, "version", v50)]

update_metadata(self, m) == m

\* mutant: the rename updates header['msg_type'] alone
update_msg_type_header_only(self, m) ==
    LET msg_type == m["header"]["msg_type"]
    IN  IF msg_type \in DOMAIN msg_type_map(self)
        THEN [m EXCEPT !["header"] = Put(@, "msg_type", msg_type_map(self)[msg_type])]
        ELSE m

update_msg_type(self, m) ==
    LET msg_type == m["header"]["msg_type"]
    IN  IF msg_type \in DOMAIN msg_type_map(self)
        THEN LET new == msg_type_map(self)[msg_type]
             IN  Put([m EXCEPT !["header"] = Put(@, "msg_type", new)], "msg_type", new)
        ELSE m

\* def handle_reply_status_error(msg): return msg
\* The function is declared without self, so the bound call
\* self.handle_reply_status_error(msg) passes two arguments to a function of one.
handle_reply_status_error(self, m) == Raise(m, "TypeError")

----------------------------------------------------------------------------
(* class V5toV4 *)

\* if key in content: content[key] = _version_str_to_list(content[key])
\* (a value that is no str has no split method)
V5toV4_convert_version(r, key) ==
    IF r.exc # "none" \/ ~Has(r.c, key) THEN r
    ELSE IF Kind(r.c[key]) # "str" THEN [r EXCEPT !.exc = "AttributeError"]
    ELSE [r EXCEPT !.c = Put(@, key, PyList(_version_str_to_list(Val(r.c[key]))))]

V5toV4_kernel_info_reply(m) ==
    LET c1 == Drop(m["content"], "banner")
        r2 == V5toV4_convert_version(
                  V5toV4_convert_version([c |-> c1, exc |-> "none"], "language_version"),
                  "protocol_version")
        c2 == r2.c
        \* content.pop('implementation', '') == 'ipython'
        is_ipython == Has(c2, "implementation") /\ c2["implementation"] = PyStr(s_ipython)
        c3 == Drop(c2, "implementation")
    IN  IF r2.exc # "none" THEN Raise(WithContent(m, c2), r2.exc)
        ELSE IF is_ipython /\ Has(c3, "implementation_version") /\ ~Has(c3, "implmentation_version")
        THEN \* content.pop('implmentation_version'): the key as the source spells it
             Raise(WithContent(m, c3), "KeyError")
        ELSE LET c4 == IF is_ipython /\ Has(c3, "implementation_version")
                       THEN Put(Drop(c3, "implmentation_version"), "ipython_version",
                                c3["implmentation_version"])
                       ELSE c3
                 c5 == Drop(c4, "implementation_version")
             IN  IF ~Has(c5, "language") THEN Raise(WithContent(m, c5), "KeyError")
                 ELSE Return(WithContent(m, SetDefault(c5, "implmentation", c5["language"])))

V5toV4_execute_request(m) ==
    Return(WithContent(m, SetDefault(m["content"], "user_variables", PyList(<<>>))))

V5toV4_execute_reply(m) ==
    Return(WithContent(m, SetDefault(m["content"], "user_variables", PyDict(EmptyDict))))

V5toV4_complete_request(m) ==
    LET content == m["content"]
    IN  IF ~Has(content, "code") \/ ~Has(content, "cursor_pos") THEN Raise(m, "KeyError")
        ELSE IF Kind(content["code"]) # "str" THEN Raise(m, "AttributeError")
        ELSE IF Val(content["code"]) # <<>> /\ Kind(content["cursor_pos"]) # "int"
        THEN Raise(m, "TypeError")
        ELSE LET r == code_to_line(Val(content["code"]), Val(content["cursor_pos"]))
             IN  IF r.exc # "none" THEN Raise(m, r.exc)
                 ELSE Return(WithContent(m,
                        [k \in {"text", "line", "block", "cursor_pos"} |->
                            CASE k = "text" -> PyStr(<<>>)
                              [] k = "line" -> PyStr(r.line)
                              [] k = "block" -> PyNone
                              [] k = "cursor_pos" -> PyInt(r.cursor_pos)]))

\* mutant: matched_text taken from position match_len on, matches[0][match_len:]
V5toV4_complete_reply_tail(m) ==
    LET content == m["content"]
        c2 == Drop(Drop(content, "cursor_start"), "cursor_end")
    IN  IF ~Has(content, "cursor_start") \/ ~Has(content, "cursor_end") \/ ~Has(content, "matches")
        THEN Raise(m, "KeyError")
        ELSE IF Kind(content["cursor_start"]) # "int" \/ Kind(content["cursor_end"]) # "int"
        THEN Raise(WithContent(m, c2), "TypeError")
        ELSE IF Val(c2["matches"]) = <<>> THEN Raise(WithContent(m, c2), "IndexError")
        ELSE LET first == Val(Val(c2["matches"])[1])
                 match_len == Val(content["cursor_end"]) - Val(content["cursor_start"])
                 kept == SliceTo(first, match_len)
             IN  Return(WithContent(m, Drop(Put(c2, "matched_text",
                        PyStr(SubSeq(first, Len(kept) + 1, Len(first)))), "metadata")))

V5toV4_complete_reply(m) ==
    LET content == m["content"]
        c1 == Drop(content, "cursor_start")
        c2 == Drop(c1, "cursor_end")
    IN  IF ~Has(content, "cursor_start") THEN Raise(m, "KeyError")
        ELSE IF ~Has(c1, "cursor_end") THEN Raise(WithContent(m, c1), "KeyError")
        ELSE IF Kind(content["cursor_start"]) # "int" \/ Kind(content["cursor_end"]) # "int"
        THEN Raise(WithContent(m, c2), "TypeError")
        ELSE IF ~Has(c2, "matches") THEN Raise(WithContent(m, c2), "KeyError")
        ELSE IF Val(c2["matches"]) = <<>> THEN Raise(WithContent(m, c2), "IndexError")
        ELSE LET cursor_start == Val(content["cursor_start"])
                 cursor_end == Val(content["cursor_end"])
                 match_len == cursor_end - cursor_start
                 c3 == Put(c2, "matched_text",
                           PyStr(SliceTo(Val(Val(c2["matches"])[1]), match_len)))
             IN  Return(WithContent(m, Drop(c3, "metadata")))

\* tok is what the external token_at_cursor(code, cursor_pos) returns
V5toV4_object_info_request(m, tok) ==
    LET content == m["content"]
    IN  IF ~Has(content, "code") \/ ~Has(content, "cursor_pos") THEN Raise(m, "KeyError")
        ELSE IF Kind(content["code"]) # "str" THEN Raise(m, "AttributeError")
        ELSE IF Val(content["code"]) # <<>> /\ Kind(content["cursor_pos"]) # "int"
        THEN Raise(m, "TypeError")
        ELSE LET r == code_to_line(Val(content["code"]), Val(content["cursor_pos"]))
                 c1 == Put(EmptyDict, "oname", PyStr(tok))
             IN  IF r.exc # "none" THEN Raise(m, r.exc)
                 ELSE IF ~Has(content, "detail_level") THEN Raise(WithContent(m, c1), "KeyError")
                 ELSE Return(WithContent(m, Put(c1, "detail_level", content["detail_level"])))

V5toV4_object_info_reply(m) ==
    Return(WithContent(m, Put(Put(EmptyDict, "found", PyBool(FALSE)), "name", PyStr(s_unknown))))

V5toV4_display_data(m) ==
    LET c1 == SetDefault(m["content"], "source", PyStr(s_display))
    IN  IF ~Has(c1, "data") THEN Raise(WithContent(m, c1), "KeyError")
        ELSE LET data == Val(c1["data"])
                 d == IF Has(data, "application/json")
                      THEN json_dumps(data["application/json"])
                      ELSE [ok |-> FALSE, val |-> PyNone]
             IN  Return(WithContent(m,
                    IF d.ok THEN Put(c1, "data", PyDict(Put(data, "application/json", d.val)))
                    ELSE c1))

V5toV4_input_request(m) == Return(WithContent(m, Drop(m["content"], "password")))

V5toV4_handlers ==
    {"kernel_info_reply", "execute_request", "execute_reply", "complete_request",
     "complete_reply", "object_info_request", "object_info_reply", "display_data",
     "input_request"}

----------------------------------------------------------------------------
(* class V4toV5 *)

\* if key in content: content[key] = ".".join(map(str, content[key]))
\* (map(str, ...) over a str yields its characters; an int is not iterable)
V4toV5_convert_version(r, key) ==
    IF r.exc # "none" \/ ~Has(r.c, key) THEN r
    ELSE LET v == r.c[key]
         IN  IF Kind(v) = "list" THEN [r EXCEPT !.c = Put(@, key, PyStr(JoinVersion(Val(v))))]
             ELSE IF Kind(v) = "str"
             THEN [r EXCEPT !.c = Put(@, key,
                      PyStr(Join([i \in 1..Len(Val(v)) |-> <<Val(v)[i]>>], ".")))]
             ELSE [r EXCEPT !.exc = "TypeError"]

V4toV5_kernel_info_reply(m) ==
    LET r == V4toV5_convert_version(
                 V4toV5_convert_version(
                     V4toV5_convert_version([c |-> m["content"], exc |-> "none"],
                                            "language_version"),
                     "protocol_version"),
                 "ipython_version")
        c1 == r.c
    IN  IF r.exc # "none" THEN Raise(WithContent(m, c1), r.exc)
        ELSE IF ~Has(c1, "language") THEN Raise(WithContent(m, c1), "KeyError")
        ELSE IF Kind(c1["language"]) # "str" THEN Raise(WithContent(m, c1), "AttributeError")
        ELSE LET c2 == IF StartsWith(Val(c1["language"]), s_python) /\ Has(c1, "ipython_version")
                       THEN Put(Put(Drop(c1, "ipython_version"), "implementation", PyStr(s_ipython)),
                                "implementation_version", c1["ipython_version"])
                       ELSE c1
             IN  Return(WithContent(m, Put(c2, "banner", PyStr(<<>>))))

\* the names a for loop over user_variables yields
IterNames(v) ==
    IF Kind(v) = "list" THEN {Val(Val(v)[i]) : i \in 1..Len(Val(v))}
    ELSE DOMAIN Val(v)

V4toV5_execute_request(m) ==
    LET content == m["content"]
        user_variables == IF Has(content, "user_variables") THEN content["user_variables"]
                          ELSE PyList(<<>>)
        c1 == SetDefault(Drop(content, "user_variables"), "user_expressions", PyDict(EmptyDict))
        ue == Val(c1["user_expressions"])
        names == IterNames(user_variables)
    IN  Return(WithContent(m, Put(c1, "user_expressions",
            PyDict([k \in DOMAIN ue \cup names |-> IF k \in names THEN PyStr(k) ELSE ue[k]]))))

V4toV5_execute_reply(m) ==
    LET content == m["content"]
        c1 == SetDefault(content, "user_expressions", PyDict(EmptyDict))
        ue == Val(c1["user_expressions"])
        user_variables == IF Has(c1, "user_variables") THEN c1["user_variables"]
                          ELSE PyDict(EmptyDict)
        c2 == Drop(c1, "user_variables")
    IN  IF Kind(user_variables) = "dict"
        THEN Return(WithContent(m, Put(c2, "user_expressions",
                 PyDict([k \in DOMAIN ue \cup DOMAIN Val(user_variables) |->
                            IF k \in DOMAIN Val(user_variables) THEN Val(user_variables)[k]
                            ELSE ue[k]]))))
        ELSE IF Val(user_variables) = <<>> THEN Return(WithContent(m, c2))
        ELSE \* dict.update with a list of names: its elements are no key/value pairs
             Raise(WithContent(m, c2), "ValueError")

V4toV5_complete_request(m) ==
    LET old_content == m["content"]
        c1 == Put(EmptyDict, "code", IF Has(old_content, "line") THEN old_content["line"] ELSE PyNone)
    IN  IF ~Has(old_content, "line") THEN Raise(WithContent(m, EmptyDict), "KeyError")
        ELSE IF ~Has(old_content, "cursor_pos") THEN Raise(WithContent(m, c1), "KeyError")
        ELSE Return(WithContent(m, Put(c1, "cursor_pos", old_content["cursor_pos"])))

V4toV5_complete_reply(m) ==
    LET content == m["content"]
        c1 == Put(EmptyDict, "status", PyStr(s_ok))
    IN  IF ~Has(content, "matches") THEN Raise(WithContent(m, c1), "KeyError")
        ELSE LET c2 == Put(c1, "matches", content["matches"])
             IN  IF ~Has(content, "matched_text") THEN Raise(WithContent(m, c2), "KeyError")
                 ELSE IF Kind(content["matched_text"]) # "str"
                 THEN Raise(WithContent(m, c2), "TypeError")
                 ELSE Return(WithContent(m,
                        Put(Put(Put(c2, "cursor_start",
                                    PyInt(0 - Len(Val(content["matched_text"])))),
                                "cursor_end", PyNone),
                            "metadata", PyDict(EmptyDict))))

V4toV5_inspect_request(m) ==
    LET content == m["content"]
    IN  IF ~Has(content, "oname") THEN Raise(m, "KeyError")
        ELSE IF Kind(content["oname"]) # "str"
        THEN Raise(WithContent(m, Put(EmptyDict, "code", content["oname"])), "TypeError")
        ELSE LET name == content["oname"]
                 c1 == Put(Put(EmptyDict, "code", name), "cursor_pos", PyInt(Len(Val(name))))
             IN  IF ~Has(content, "detail_level") THEN Raise(WithContent(m, c1), "KeyError")
                 ELSE Return(WithContent(m, Put(c1, "detail_level", content["detail_level"])))

\* content.get(key, False) is true
Truthy(content, key) ==
    /\ Has(content, key)
    /\ content[key] \notin {PyNone, PyBool(FALSE), PyStr(<<>>), PyInt(0)}

\* the first key of keys whose value is true, as a list of at most one line
FirstTruthy(content, keys) ==
    LET hits == {i \in 1..Len(keys) : Truthy(content, keys[i])}
    IN  IF hits = {} THEN <<>>
        ELSE <<Val(content[keys[CHOOSE i \in hits : \A j \in hits : i <= j]])>>

V4toV5_inspect_reply(m) ==
    LET content == m["content"]
        c1 == Put(EmptyDict, "status", PyStr(s_ok))
    IN  IF ~Has(content, "found") THEN Raise(WithContent(m, c1), "KeyError")
        ELSE LET c2 == Put(c1, "found", content["found"])
             IN  IF ~Has(content, "name") THEN Raise(WithContent(m, c2), "KeyError")
                 ELSE LET c3 == Put(Put(c2, "name", content["name"]),
                                    "metadata", PyDict(EmptyDict))
                          found == content["found"] \notin {PyNone, PyBool(FALSE)}
                          picked == FirstTruthy(content, <<"call_def", "init_definition", "definition">>)
                                    \o FirstTruthy(content, <<"call_docstring", "init_docstring", "docstring">>)
                          lines == IF picked = <<>> THEN <<s_empty_docstring>> ELSE picked
                          data == IF found
                                  THEN Put(EmptyDict, "text/plain", PyStr(Join(lines, LF)))
                                  ELSE EmptyDict
                      IN  Return(WithContent(m, Put(c3, "data", PyDict(data))))

V4toV5_display_data(m) ==
    LET c1 == Drop(m["content"], "source")
    IN  IF ~Has(c1, "data") THEN Raise(WithContent(m, c1), "KeyError")
        ELSE LET data == Val(c1["data"])
                 d == IF Has(data, "application/json")
                      THEN json_loads(data["application/json"])
                      ELSE [ok |-> FALSE, val |-> PyNone]
             IN  Return(WithContent(m,
                    IF d.ok THEN Put(c1, "data", PyDict(Put(data, "application/json", d.val)))
                    ELSE c1))

V4toV5_input_request(m) ==
    Return(WithContent(m, SetDefault(m["content"], "password", PyBool(FALSE))))

V4toV5_handlers ==
    {"kernel_info_reply", "execute_request", "execute_reply", "complete_request",
     "complete_reply", "inspect_request", "inspect_reply", "display_data",
     "input_request"}

----------------------------------------------------------------------------
(* Adapter.__call__ *)

handlers(self) == IF self = "V5toV4" THEN V5toV4_handlers ELSE V4toV5_handlers

\* getattr(self, name, None): what the attribute of that name is.
\*   "transform"     a content transform of the class
\*   "pipeline"      update_header, update_metadata, update_msg_type
\*   "error_handler" handle_reply_status_error
\*   "call"          __call__
\*   "data"          a class attribute that is not callable
\*   "none"          no such attribute: the default None
getattr(self, name) ==
    IF name \in handlers(self) THEN "transform"
    ELSE IF name \in {"update_header", "update_metadata", "update_msg_type"} THEN "pipeline"
    ELSE IF name = "handle_reply_status_error" THEN "error_handler"
    ELSE IF name = "__call__" THEN "call"
    ELSE IF name \in {"version", "msg_type_map", "__doc__", "__module__"} THEN "data"
    ELSE "none"

\* handler(msg) for a content transform
transform(self, name, m, tok) ==
    IF self = "V5toV4"
    THEN CASE name = "kernel_info_reply" -> V5toV4_kernel_info_reply(m)
           [] name = "execute_request" -> V5toV4_execute_request(m)
           [] name = "execute_reply" -> V5toV4_execute_reply(m)
           [] name = "complete_request" -> V5toV4_complete_request(m)
           [] name = "complete_reply" -> V5toV4_complete_reply(m)
           [] name = "object_info_request" -> V5toV4_object_info_request(m, tok)
           [] name = "object_info_reply" -> V5toV4_object_info_reply(m)
           [] name = "display_data" -> V5toV4_display_data(m)
           [] name = "input_request" -> V5toV4_input_request(m)
    ELSE CASE name = "kernel_info_reply" -> V4toV5_kernel_info_reply(m)
           [] name = "execute_request" -> V4toV5_execute_request(m)
           [] name = "execute_reply" -> V4toV5_execute_reply(m)
           [] name = "complete_request" -> V4toV5_complete_request(m)
           [] name = "complete_reply" -> V4toV5_complete_reply(m)
           [] name = "inspect_request" -> V4toV5_inspect_request(m)
           [] name = "inspect_reply" -> V4toV5_inspect_reply(m)
           [] name = "display_data" -> V4toV5_display_data(m)
           [] name = "input_request" -> V4toV5_input_request(m)

\* handler(msg), for whatever getattr returned
invoke(self, name, m, tok) ==
    LET kind == getattr(self, name)
    IN  CASE kind = "transform" -> transform(self, name, m, tok)
          [] kind = "pipeline" ->
                Return(CASE name = "update_header" -> update_header(self, m)
                         [] name = "update_metadata" -> update_metadata(self, m)
                         [] name = "update_msg_type" -> update_msg_type(self, m))
          \* the bound method of a function declared without self
          [] kind = "error_handler" -> Raise(m, "TypeError")
          \* __call__ finds itself as the handler again, without end
          [] kind = "call" -> Raise(m, "RecursionError")
          \* a str or a dict is not callable
          [] kind = "data" -> Raise(m, "TypeError")

\* msg['content'].get('status', None) in {'error', 'aborted'}
status_error(m) ==
    /\ Has(m["content"], "status")
    /\ \/ m["content"]["status"] = PyStr(s_error)
       \/ m["content"]["status"] = PyStr(s_aborted)

Pipeline == <<"update_header", "update_metadata", "update_msg_type">>

\* what __call__ hands back: the message as left, the exception, the methods invoked
result(self, r, invoked) ==
    [msg |-> r.msg, exc |-> r.exc, trace |-> invoked, ran |-> self]

\* Adapter.__call__ from `header = msg['header']` on; m is the message after
\* update_header, update_metadata and update_msg_type
dispatch(self, m, tok) ==
    IF getattr(self, m["header"]["msg_type"]) = "none"
    THEN result(self, Return(m), Pipeline)
    ELSE IF status_error(m)
    THEN result(self, handle_reply_status_error(self, m),
                Append(Pipeline, "handle_reply_status_error"))
    ELSE result(self, invoke(self, m["header"]["msg_type"], m, tok),
                Append(Pipeline, m["header"]["msg_type"]))

\* Adapter.__call__(self, msg)
__call__(self, m, tok) ==
    dispatch(self, update_msg_type(self, update_metadata(self, update_header(self, m))), tok)

----------------------------------------------------------------------------
(* adapt and the adapters registry *)

\* mutant: the registry looked up by the source version alone
adapters_by_source(from_version, to_version) ==
    IF from_version = 5 THEN "V5toV4"
    ELSE IF from_version = 4 THEN "V4toV5"
    ELSE "none"

\* adapters.get((from_version, to_version), None)
adapters(from_version, to_version) ==
    IF from_version = 5 /\ to_version = 4 THEN "V5toV4"
    ELSE IF from_version = 4 /\ to_version = 5 THEN "V4toV5"
    ELSE "none"

\* mutant: a header without version is taken for the current version
from_version_current(m) ==
    IF Has(m["header"], "version")
    THEN ParseInt(Split(m["header"]["version"], ".")[1])
    ELSE [ok |-> TRUE, val |-> 5]

\* from_version of adapt: int(header['version'].split('.')[0]), or 4
from_version(m) ==
    IF Has(m["header"], "version")
    THEN ParseInt(Split(m["header"]["version"], ".")[1])
    ELSE [ok |-> TRUE, val |-> 4]

adapt(m, to_version, tok) ==
    IF ~from_version(m).ok
    THEN [msg |-> m, exc |-> "ValueError", trace |-> <<>>, ran |-> "none"]
    ELSE IF adapters(from_version(m).val, to_version) = "none"
    THEN [msg |-> m, exc |-> "none", trace |-> <<>>, ran |-> "none"]
    ELSE __call__(adapters(from_version(m).val, to_version), m, tok)

----------------------------------------------------------------------------
(* The messages handed to adapt *)

\* a dict from a sequence of <<key, value>> pairs
RECURSIVE DictOf(_)
DictOf(pairs) ==
    IF pairs = <<>> THEN EmptyDict
    ELSE Put(DictOf(SubSeq(pairs, 1, Len(pairs) - 1)), pairs[Len(pairs)][1], pairs[Len(pairs)][2])

t_python == PyStr(s_python)
t_julia == PyStr(<<"j", "u", "l", "i", "a">>)
t_foobar == PyStr(<<"f", "o", "o", "b", "a", "r">>)
t_foobaz == PyStr(<<"f", "o", "o", "b", "a", "z">>)
t_a == PyStr(<<"a">>)
t_b == PyStr(<<"b">>)
t_ab == PyStr(<<"a", "b">>)
t_v34 == PyStr(<<"3", ".", "4">>)
t_v50 == PyStr(v50)
t_v20dev == PyStr(<<"2", ".", "0", ".", "d">>)
t_code == PyStr(<<"a", "b", LF, "c">>)
t_quoted == PyStr(<<"\"", "a", "\"">>)

StatusError == DictOf(<<<<"status", PyStr(s_error)>>>>)
StatusAborted == DictOf(<<<<"status", PyStr(s_aborted)>>>>)
StatusOk == DictOf(<<<<"status", PyStr(s_ok)>>>>)

KernelInfoV5 ==
    DictOf(<<<<"language", t_python>>, <<"language_version", t_v34>>,
             <<"protocol_version", t_v50>>, <<"implementation", PyStr(s_ipython)>>,
             <<"implementation_version", t_v20dev>>, <<"banner", t_ab>>>>)

KernelInfoV4 ==
    DictOf(<<<<"language", t_python>>, <<"language_version", PyList(<<3, 4>>)>>,
             <<"protocol_version", PyList(<<4, 1>>)>>, <<"ipython_version", PyList(<<2, 0>>)>>>>)

CompleteReplyV5 ==
    DictOf(<<<<"status", PyStr(s_ok)>>, <<"matches", PyList(<<t_foobar, t_foobaz>>)>>,
             <<"cursor_start", PyInt(3)>>, <<"cursor_end", PyInt(6)>>,
             <<"metadata", PyDict(EmptyDict)>>>>)

InspectReplyV4 ==
    DictOf(<<<<"found", PyBool(TRUE)>>, <<"name", t_a>>, <<"definition", t_ab>>,
             <<"docstring", t_b>>>>)

\* the contents the model hands in, per msg_type
ContentsOf(t) ==
    CASE t = "kernel_info_reply" ->
            {KernelInfoV5,
             Drop(KernelInfoV5, "implementation_version"),
             Put(KernelInfoV5, "implementation", t_julia),
             Put(KernelInfoV5, "implmentation_version", t_v34),
             Drop(Drop(KernelInfoV5, "implementation"), "language"),
             KernelInfoV4,
             Put(Drop(KernelInfoV4, "ipython_version"), "language", t_julia),
             StatusError}
      [] t = "execute_request" ->
            {DictOf(<<<<"code", t_a>>>>),
             DictOf(<<<<"code", t_a>>, <<"user_variables", PyList(<<t_a, t_b>>)>>>>),
             DictOf(<<<<"code", t_a>>, <<"user_variables", PyList(<<t_a>>)>>,
                      <<"user_expressions", PyDict(DictOf(<<<<Val(t_b), t_ab>>>>))>>>>)}
      [] t = "execute_reply" ->
            {StatusOk,
             DictOf(<<<<"status", PyStr(s_ok)>>,
                      <<"user_variables", PyDict(DictOf(<<<<Val(t_a), t_b>>>>))>>,
                      <<"user_expressions", PyDict(DictOf(<<<<Val(t_a), t_a>>>>))>>>>),
             StatusError, StatusAborted}
      [] t = "complete_request" ->
            {DictOf(<<<<"code", t_code>>, <<"cursor_pos", PyInt(4)>>>>),
             DictOf(<<<<"code", t_code>>, <<"cursor_pos", PyInt(9)>>>>),
             DictOf(<<<<"code", PyStr(<<>>)>>, <<"cursor_pos", PyInt(0)>>>>),
             DictOf(<<<<"line", t_ab>>, <<"cursor_pos", PyInt(1)>>, <<"text", PyStr(<<>>)>>,
                      <<"block", PyNone>>>>)}
      [] t = "complete_reply" ->
            {CompleteReplyV5,
             Drop(CompleteReplyV5, "metadata"),
             Put(Put(CompleteReplyV5, "cursor_start", PyInt(5)), "cursor_end", PyInt(3)),
             Put(CompleteReplyV5, "cursor_end", PyNone),
             Put(CompleteReplyV5, "matches", PyList(<<>>)),
             Drop(CompleteReplyV5, "cursor_end"),
             DictOf(<<<<"matches", PyList(<<t_foobar>>)>>, <<"matched_text", t_ab>>>>),
             StatusError}
      [] t \in {"inspect_request", "object_info_request"} ->
            {DictOf(<<<<"code", t_code>>, <<"cursor_pos", PyInt(1)>>, <<"detail_level", PyInt(0)>>>>),
             DictOf(<<<<"code", t_code>>, <<"cursor_pos", PyInt(1)>>>>),
             DictOf(<<<<"oname", t_ab>>, <<"detail_level", PyInt(1)>>>>)}
      [] t \in {"inspect_reply", "object_info_reply"} ->
            {DictOf(<<<<"status", PyStr(s_ok)>>, <<"found", PyBool(TRUE)>>,
                      <<"data", PyDict(DictOf(<<<<"text/plain", t_ab>>>>))>>,
                      <<"metadata", PyDict(EmptyDict)>>>>),
             InspectReplyV4,
             Drop(Drop(InspectReplyV4, "definition"), "docstring"),
             Put(InspectReplyV4, "found", PyBool(FALSE)),
             StatusError}
      [] t = "display_data" ->
            {DictOf(<<<<"data", PyDict(DictOf(<<<<"application/json", PyInt(12)>>>>))>>>>),
             DictOf(<<<<"data", PyDict(DictOf(<<<<"application/json", PyStr(<<"1", "2">>)>>>>))>>,
                      <<"source", t_a>>>>),
             DictOf(<<<<"data", PyDict(DictOf(<<<<"application/json", PyObject>>>>))>>>>),
             DictOf(<<<<"data", PyDict(DictOf(<<<<"application/json", t_quoted>>>>))>>>>),
             DictOf(<<<<"data", PyDict(DictOf(<<<<"application/json", t_a>>>>))>>>>),
             DictOf(<<<<"data", PyDict(DictOf(<<<<"text/plain", t_a>>>>))>>>>),
             EmptyDict}
      [] t = "input_request" ->
            {DictOf(<<<<"prompt", t_a>>, <<"password", PyBool(TRUE)>>>>),
             DictOf(<<<<"prompt", t_a>>>>)}
      [] OTHER -> {EmptyDict, StatusOk, StatusError, StatusAborted}

\* msg_type values: those with a transform, the renamed ones, one with no handler
\* at all, and names that are also attributes of the adapter object
MsgTypes ==
    {"kernel_info_reply", "execute_request", "execute_reply", "complete_request",
     "complete_reply", "inspect_request", "inspect_reply", "object_info_request",
     "object_info_reply", "display_data", "input_request",
     "execute_result", "pyout", "execute_input", "pyin", "error", "pyerr", "status",
     "version", "msg_type_map", "update_header", "update_metadata", "update_msg_type",
     "handle_reply_status_error", "__call__"}

\* header['version'] values; <<>> stands here for a header without the key
HeaderVersions ==
    {<<>>, v41, v50, <<"5">>, <<"3", ".", "0">>, <<"5", ".", "0", ".", "d">>, <<"d", ".", "1">>}

Metadata == DictOf(<<<<"started", t_a>>>>)

\* a message as the session layer builds it; top says whether the dict carries
\* the top-level copy msg['msg_type'] of header['msg_type']
Message(t, v, c, top) ==
    LET header == IF v = <<>> THEN DictOf(<<<<"msg_type", t>>>>)
                  ELSE DictOf(<<<<"msg_type", t>>, <<"version", v>>>>)
        body == DictOf(<<<<"header", header>>, <<"content", c>>, <<"metadata", Metadata>>>>)
    IN  IF top THEN Put(body, "msg_type", t) ELSE body

Messages ==
    UNION {{Message(t, v, c, top) : v \in HeaderVersions, c \in ContentsOf(t), top \in BOOLEAN} :
              t \in MsgTypes}

Targets == {3, 4, 5}

\* what token_at_cursor may return
Tokens == {<<>>, <<"a", "b">>}

----------------------------------------------------------------------------
(* Specification Spec: a caller hands a message to adapt, again and again *)

NoLine == [line |-> <<>>, cursor_pos |-> 0, exc |-> "none"]
NoResult == [exc |-> "none", trace |-> <<>>, ran |-> "none"]

Init ==
    /\ msg \in Messages
    /\ prev = msg
    /\ to = 0 /\ exc = "none" /\ trace = <<>> /\ ran = "none"
    /\ calls = 0 /\ hist = <<>>
    /\ twin = EmptyDict /\ twinres = NoResult
    /\ code = <<>> /\ cursor_pos = 0 /\ lineres = NoLine
    /\ version = <<>> /\ segs = <<>> /\ joined = <<>>
    /\ pc = "adapt"

\* msg = adapt(msg, to_version); an exception leaves msg as mutated so far
Adapt ==
    /\ pc = "adapt"
    /\ calls < MaxCalls
    /\ \E to_version \in Targets, tok \in Tokens :
          \E r \in {adapt(msg, to_version, tok)} :
              /\ msg' = r.msg
              /\ exc' = r.exc
              /\ trace' = r.trace
              /\ ran' = r.ran
              /\ to' = to_version
              /\ hist' = Append(hist, [to |-> to_version, ran |-> r.ran, exc |-> r.exc])
    /\ prev' = msg
    /\ calls' = calls + 1
    /\ UNCHANGED <<twin, twinres, code, cursor_pos, lineres, version, segs, joined, pc>>

Next == Adapt

Spec == Init /\ [][Next]_vars

----------------------------------------------------------------------------
(* Specification SpecTwin: a message without header['version'] and the same *)
(* message with version '4.1' are adapted side by side                      *)

InitTwin ==
    /\ msg \in {m \in Messages : ~Has(m["header"], "version")}
    /\ twin = [msg EXCEPT !["header"] = Put(@, "version", v41)]
    /\ prev = msg
    /\ to = 0 /\ exc = "none" /\ trace = <<>> /\ ran = "none"
    /\ calls = 0 /\ hist = <<>>
    /\ twinres = NoResult
    /\ code = <<>> /\ cursor_pos = 0 /\ lineres = NoLine
    /\ version = <<>> /\ segs = <<>> /\ joined = <<>>
    /\ pc = "twin"

AdaptBoth ==
    /\ pc = "twin"
    /\ calls < MaxCalls
    /\ \E to_version \in Targets, tok \in Tokens :
          \E r \in {adapt(msg, to_version, tok)}, q \in {adapt(twin, to_version, tok)} :
              /\ msg' = r.msg
              /\ exc' = r.exc
              /\ trace' = r.trace
              /\ ran' = r.ran
              /\ twin' = q.msg
              /\ twinres' = [exc |-> q.exc, trace |-> q.trace, ran |-> q.ran]
              /\ to' = to_version
              /\ hist' = Append(hist, [to |-> to_version, ran |-> r.ran, exc |-> r.exc])
    /\ prev' = msg
    /\ calls' = calls + 1
    /\ UNCHANGED <<code, cursor_pos, lineres, version, segs, joined, pc>>

NextTwin == AdaptBoth

SpecTwin == InitTwin /\ [][NextTwin]_vars

----------------------------------------------------------------------------
(* Specification SpecLine: code_to_line on every short text and offset *)

CodeChars == {"a", LF, CR}

InitLine ==
    /\ code \in SeqsUpTo(CodeChars, MaxCodeLen)
    /\ cursor_pos \in 0..MaxCursor
    /\ lineres = NoLine
    /\ pc = "line"
    /\ msg = EmptyDict /\ prev = EmptyDict /\ twin = EmptyDict /\ twinres = NoResult
    /\ to = 0 /\ exc = "none" /\ trace = <<>> /\ ran = "none"
    /\ calls = 0 /\ hist = <<>>
    /\ version = <<>> /\ segs = <<>> /\ joined = <<>>

CodeToLine ==
    /\ pc = "line"
    /\ lineres' = code_to_line(code, cursor_pos)
    /\ pc' = "line_done"
    /\ UNCHANGED <<msg, to, exc, trace, ran, prev, calls, hist, twin, twinres,
                   code, cursor_pos, version, segs, joined>>

NextLine == CodeToLine

SpecLine == InitLine /\ [][NextLine]_vars

----------------------------------------------------------------------------
(* Specification SpecVersion: a version string to its list of ints and back *)

VersionChars == {"0", "5", ".", "d", "+", " "}

InitVersion ==
    /\ version \in SeqsUpTo(VersionChars, MaxVersionLen)
    /\ segs = <<>> /\ joined = <<>>
    /\ pc = "version"
    /\ msg = EmptyDict /\ prev = EmptyDict /\ twin = EmptyDict /\ twinres = NoResult
    /\ to = 0 /\ exc = "none" /\ trace = <<>> /\ ran = "none"
    /\ calls = 0 /\ hist = <<>>
    /\ code = <<>> /\ cursor_pos = 0 /\ lineres = NoLine

\* segs = _version_str_to_list(version)
VersionStrToList ==
    /\ pc = "version"
    /\ segs' = _version_str_to_list(version)
    /\ pc' = "listed"
    /\ UNCHANGED <<msg, to, exc, trace, ran, prev, calls, hist, twin, twinres,
                   code, cursor_pos, lineres, version, joined>>

\* joined = ".".join(map(str, segs))
JoinSegments ==
    /\ pc = "listed"
    /\ joined' = JoinVersion(segs)
    /\ pc' = "joined"
    /\ UNCHANGED <<msg, to, exc, trace, ran, prev, calls, hist, twin, twinres,
                   code, cursor_pos, lineres, version, segs>>

NextVersion == VersionStrToList \/ JoinSegments

SpecVersion == InitVersion /\ [][NextVersion]_vars

----------------------------------------------------------------------------
(* Properties of adapt, checked under Spec *)

\* header['msg_type'] and the top-level msg['msg_type'] hold the same value
InSync(m) == Has(m, "msg_type") /\ m["msg_type"] = m["header"]["msg_type"]

\* the last call went through an adapter
AdapterRan == calls > 0 /\ ran # "none"

\* C1: when (source major version, target major version) is no key of the
\* registry, adapt returns the message it was given, nothing altered.
C1_UnregisteredPairUnchanged ==
    (/\ calls > 0
     /\ from_version(prev).ok
     /\ <<from_version(prev).val, to>> \notin {<<5, 4>>, <<4, 5>>})
    => (msg = prev /\ exc = "none" /\ trace = <<>>)

\* a version 5 message adapted to version 5 came back as it was
C1_Witness ==
    /\ calls = 1 /\ to = 5
    /\ Has(prev["header"], "version") /\ prev["header"]["version"] = v50
    /\ prev["header"]["msg_type"] = "execute_reply"
    /\ msg = prev /\ exc = "none"

\* C2: on a message with content.status "error" or "aborted" whose msg_type has
\* a content transform, the adapter returns the message, content unchanged,
\* through handle_reply_status_error and without invoking the transform.
C2_ErrorReplyReturned ==
    (/\ AdapterRan
     /\ status_error(prev)
     /\ msg["header"]["msg_type"] \in handlers(ran))
    => (/\ exc = "none"
        /\ msg["content"] = prev["content"]
        /\ trace = Append(Pipeline, "handle_reply_status_error"))

\* C3 as stated: after any adapter ran on any message, header.msg_type and the
\* top-level msg_type hold the same value.  (Stated for the calls that return
\* and whose msg_type names a content transform or no attribute at all.)
C3_InSyncAfterAnyAdapter ==
    (/\ AdapterRan /\ exc = "none"
     /\ getattr(ran, msg["header"]["msg_type"]) \in {"none", "transform"})
    => InSync(msg)

\* C3 amended: they hold the same value when the rename table renamed the type
\* or when they held the same value before the call; a type that is not renamed
\* leaves the top-level msg_type as it was found, missing included.
C3_InSyncWhenRenamedOrBefore ==
    AdapterRan =>
        LET renamed == msg["header"]["msg_type"] # prev["header"]["msg_type"]
        IN  /\ (renamed \/ InSync(prev)) => InSync(msg)
            /\ ~renamed => /\ Has(msg, "msg_type") = Has(prev, "msg_type")
                           /\ Has(prev, "msg_type") => msg["msg_type"] = prev["msg_type"]

\* a message without the top-level copy was renamed, and both names were set
C3_Witness ==
    /\ calls = 1 /\ ran = "V5toV4" /\ exc = "none"
    /\ ~Has(prev, "msg_type") /\ prev["header"]["msg_type"] = "execute_result"
    /\ Has(msg, "msg_type") /\ msg["msg_type"] = "pyout"
    /\ msg["header"]["msg_type"] = "pyout"

\* C4: for a msg_type the adapter has no content transform for, the call is no
\* error: the message comes back with content unchanged after update_header,
\* update_metadata and update_msg_type ran once each and nothing else ran.
C4_NoTransformPassThrough ==
    (/\ AdapterRan
     /\ ~status_error(prev)
     /\ msg["header"]["msg_type"] \notin handlers(ran))
    => (/\ exc = "none"
        /\ msg["content"] = prev["content"]
        /\ trace = Pipeline)

\* C7 as stated: V5toV4.complete_reply on matches ["foobar", "foobaz"],
\* cursor_start 3, cursor_end 6 yields matched_text "bar".
C7_MatchedTextBar ==
    (/\ calls = 1 /\ ran = "V5toV4"
     /\ prev["header"]["msg_type"] = "complete_reply"
     /\ prev["content"] = CompleteReplyV5)
    => (/\ exc = "none"
        /\ msg["content"]["matched_text"] = PyStr(<<"b", "a", "r">>))

\* C7 amended: it yields matched_text "foo"; matched_text is the first
\* cursor_end - cursor_start characters of the first match (Python's
\* matches[0][:match_len]), and cursor_start, cursor_end and metadata are
\* absent from the resulting content.
C7_MatchedTextPrefix ==
    (/\ calls = 1 /\ ran = "V5toV4" /\ exc = "none"
     /\ prev["header"]["msg_type"] = "complete_reply"
     /\ ~status_error(prev))
    => LET first == Val(Val(prev["content"]["matches"])[1])
           n == Val(prev["content"]["cursor_end"]) - Val(prev["content"]["cursor_start"])
           text == Val(msg["content"]["matched_text"])
       IN  /\ StartsWith(first, text)
           /\ Len(text) = IF n >= 0 THEN (IF n < Len(first) THEN n ELSE Len(first))
                          ELSE (IF Len(first) + n > 0 THEN Len(first) + n ELSE 0)
           /\ DOMAIN msg["content"] \cap {"cursor_start", "cursor_end", "metadata"} = {}
           /\ msg["content"]["matches"] = prev["content"]["matches"]
           /\ prev["content"] = CompleteReplyV5 => text = <<"f", "o", "o">>

C7_Witness ==
    /\ calls = 1 /\ ran = "V5toV4" /\ exc = "none"
    /\ prev["header"]["msg_type"] = "complete_reply"
    /\ prev["content"] = CompleteReplyV5
    /\ msg["content"]["matched_text"] = PyStr(<<"f", "o", "o">>)
    /\ ~Has(msg["content"], "cursor_start")

\* C8: V5toV4.kernel_info_reply on content with implementation "ipython", an
\* implementation_version and a language completes and leaves ipython_version
\* holding the former implementation_version, with implementation and
\* implementation_version gone.
C8_IpythonVersionRenamed ==
    (/\ calls = 1 /\ ran = "V5toV4"
     /\ prev["header"]["msg_type"] = "kernel_info_reply"
     /\ ~status_error(prev)
     /\ Has(prev["content"], "implementation")
     /\ prev["content"]["implementation"] = PyStr(s_ipython)
     /\ Has(prev["content"], "implementation_version")
     /\ Has(prev["content"], "language"))
    => (/\ exc = "none"
        /\ Has(msg["content"], "ipython_version")
        /\ msg["content"]["ipython_version"] = prev["content"]["implementation_version"]
        /\ DOMAIN msg["content"] \cap {"implementation", "implementation_version"} = {})

\* C10: once adapt(m, v) has returned, the next adapt(result, v) to the same
\* target finds no adapter and returns the result unchanged.
C10_RepeatedAdaptIsNoOp ==
    [][(calls >= 1 /\ exc = "none" /\ calls' = calls + 1 /\ to' = to)
        => (msg' = msg /\ exc' = "none" /\ ran' = "none" /\ trace' = <<>>)]_vars

\* a version 4 request was adapted to 5 through V4toV5, and adapted to 5 again
C10_Witness ==
    /\ Len(hist) = 2
    /\ hist[1].to = 5 /\ hist[1].ran = "V4toV5" /\ hist[1].exc = "none"
    /\ hist[2].to = 5 /\ hist[2].ran = "none" /\ hist[2].exc = "none"
    /\ msg["header"]["msg_type"] = "execute_request"
    /\ Has(msg["content"], "user_expressions")
    /\ msg = prev

----------------------------------------------------------------------------
(* The default-version rule, checked under SpecTwin *)

\* C5 as stated: a message without header.version and the same message with
\* version "4.1" select the same registry entry, and adapt returns the same
\* message for both, whatever the target.
C5_TwinSameMessage ==
    calls > 0 => (ran = twinres.ran /\ exc = twinres.exc /\ msg = twin)

\* C5 amended: the same registry entry is selected and the two calls end alike;
\* the returned messages are the same when an adapter ran (target 5), and
\* differ in header.version alone, which adapt leaves as given, when none did.
C5_TwinSameButVersion ==
    calls > 0 =>
        /\ ran = twinres.ran /\ exc = twinres.exc /\ trace = twinres.trace
        /\ [msg EXCEPT !["header"] = Drop(@, "version")]
              = [twin EXCEPT !["header"] = Drop(@, "version")]
        /\ (\E i \in 1..Len(hist) : hist[i].ran # "none") => msg = twin
        /\ (\A i \in 1..Len(hist) : hist[i].ran = "none" /\ hist[i].to # 5)
              => /\ ~Has(msg["header"], "version")
                 /\ twin["header"]["version"] = v41

C5_Witness ==
    /\ calls = 1 /\ to = 5
    /\ ran = "V4toV5" /\ twinres.ran = "V4toV5"
    /\ exc = "none" /\ twinres.exc = "none"
    /\ ~Has(prev["header"], "version")
    /\ msg["header"]["msg_type"] = "kernel_info_reply"
    /\ msg = twin

----------------------------------------------------------------------------
(* code_to_line, checked under SpecLine *)

\* C6: code_to_line returns, for every text and every offset >= 0, a line of
\* the text and a relative offset within 0..len(line), the last line when the
\* offset exceeds the text; it fails for no text, the empty one included.
C6_LineAndOffsetInRange ==
    pc = "line_done" =>
        /\ lineres.exc = "none"
        /\ code # <<>> =>
              /\ \E i \in 1..Len(SplitLines(code)) : SplitLines(code)[i] = lineres.line
              /\ cursor_pos > Len(code) =>
                    lineres.line = SplitLines(code)[Len(SplitLines(code))]
        /\ lineres.cursor_pos >= 0
        /\ lineres.cursor_pos <= Len(lineres.line)

----------------------------------------------------------------------------
(* _version_str_to_list and the join back, checked under SpecVersion *)

\* the parts of s that int() accepts
NumericParts(s) == SelectSeq(Split(s, "."), LAMBDA p : ParseInt(p).ok)

RECURSIVE DropZeros(_)
DropZeros(d) == IF Len(d) > 1 /\ d[1] = "0" THEN DropZeros(Tail(d)) ELSE d

\* the numeral of a numeric part without blanks, plus sign and leading zeros
Canonical(p) ==
    LET t == Strip(p)
        body == DropZeros(IF t[1] \in {"+", "-"} THEN Tail(t) ELSE t)
    IN  IF t[1] = "-" /\ body # <<"0">> THEN <<"-">> \o body ELSE body

\* C9 as stated: joining _version_str_to_list(s) with dots yields exactly s
\* with its non-numeric segments removed.  (Stated for the strings of digits,
\* letters and dots.)
C9_RoundTripRemovesNonNumeric ==
    (pc = "joined" /\ \A i \in 1..Len(version) : version[i] \in {"0", "5", ".", "d"})
    => joined = Join(NumericParts(version), ".")

\* C9 amended: it yields s with its non-numeric segments removed and every
\* numeric segment written as the canonical decimal of its value (no blanks,
\* no plus sign, no leading zeros); this is s with the non-numeric segments
\* removed exactly when every numeric segment is canonical already.  The
\* conversion fails for no s.
C9_RoundTripCanonical ==
    pc = "joined" =>
        LET parts == NumericParts(version)
        IN  /\ joined = Join([i \in 1..Len(parts) |-> Canonical(parts[i])], ".")
            /\ Len(segs) = Len(parts)
            /\ (joined = Join(parts, ".")) <=> (\A i \in 1..Len(parts) : Canonical(parts[i]) = parts[i])

C9_Witness ==
    /\ pc = "joined"
    /\ version = <<"5", ".", "0", ".", "d">>
    /\ segs = <<5, 0>>
    /\ joined = v50

====
